---- MODULE Spec2Model ----
(***************************************************************************)
(* A model of api.py: the RSS news aggregator with NER place extraction,   *)
(* cached geocoding, per-source ranking, and the /news/* endpoints.        *)
(*                                                                         *)
(* Python values are represented as follows.                               *)
(*   str       a sequence of code points (ASCII codes)                     *)
(*   None      the record None; an Optional[str] holding s is Some(s)      *)
(*   dict      a function whose DOMAIN is the set of keys present          *)
(*   list      a sequence                                                  *)
(*   float     latitude/longitude in hundredths of a degree (an integer)   *)
(*   datetime  a record year/month/day/hour/minute/second/microsecond      *)
(* A call that can raise returns a record with a field "raised".           *)
(***************************************************************************)
EXTENDS Integers, Sequences, FiniteSets, TLC

VARIABLES
    geo_cache,   \* api.py:40, the process-wide geocode cache
    lookups,     \* history: provider calls made so far, per place name
    returned,    \* history: every value geocode_location returned, per place name
    last_geo,    \* history: the last geocode_location call, or None
    clock,       \* the wall clock: an index into Timeline
    world,       \* the environment of the process: feeds, NER model, provider, query
    prev,        \* history: the endpoint response body before the last one, or None
    last,        \* history: the last endpoint response, or None
    probe,       \* history: the last direct get_dynamic_rank call, or None
    feed_in,     \* the feed handed to a direct parse_rss_feed call
    feed_out     \* history: the result of the last direct parse_rss_feed call, or None

vars == <<geo_cache, lookups, returned, last_geo, clock, world, prev, last, probe,
          feed_in, feed_out>>

\* Python's None.  Every value None is compared with is a record.
None == [none |-> TRUE]

\* An Optional[str] that is not None
Some(s) == [str |-> s]

(***************************************************************************)
(* Strings                                                                 *)
(***************************************************************************)
\* str.lower() on one code point: 'A'..'Z' map to 'a'..'z'
LowerChar(c) == IF c >= 65 /\ c <= 90 THEN c + 32 ELSE c

\* str.lower()
Lower(s) == [i \in 1..Len(s) |-> LowerChar(s[i])]

\* `a in b` for two strings: a occurs as a contiguous slice of b
Contains(a, b) ==
    \E i \in 0..(Len(b) - Len(a)) :
        \A j \in 1..Len(a) : b[i + j] = a[j]

\* a < b for two strings: code point order, a proper prefix is smaller
StrLess(a, b) ==
    LET n == IF Len(a) < Len(b) THEN Len(a) ELSE Len(b)
        diff == {i \in 1..n : a[i] # b[i]}
    IN  IF diff = {}
        THEN Len(a) < Len(b)
        ELSE LET k == CHOOSE i \in diff : \A j \in diff : i <= j
             IN  a[k] < b[k]

StrLeq(a, b) == a = b \/ StrLess(a, b)

\* re.sub("<[^<]+?>", "", s): scanning from the left, a "<" followed by one or
\* more characters other than "<", as few as possible, and then ">" is removed.
RECURSIVE StripFrom(_, _)
StripFrom(s, i) ==
    IF i > Len(s) THEN <<>>
    ELSE IF s[i] # 60 THEN <<s[i]>> \o StripFrom(s, i + 1)
    ELSE LET ends == {j \in (i + 2)..Len(s) :
                        /\ s[j] = 62
                        /\ \A k \in (i + 1)..(j - 1) : s[k] # 60}
         IN  IF ends # {}
             THEN StripFrom(s, (CHOOSE j \in ends : \A k \in ends : j <= k) + 1)
             ELSE <<s[i]>> \o StripFrom(s, i + 1)

StripTags(s) == StripFrom(s, 1)

(***************************************************************************)
(* String literals of the program and of the test inputs                   *)
(***************************************************************************)
BBC_News == <<66, 66, 67, 32, 78, 101, 119, 115>>                    \* "BBC News"
Al_Jazeera_English ==                                                \* "Al Jazeera English"
    <<65, 108, 32, 74, 97, 122, 101, 101, 114, 97, 32, 69, 110, 103, 108, 105, 115, 104>>
Dawn == <<68, 97, 119, 110>>                                         \* "Dawn"
The_News_International ==                                            \* "The News International"
    <<84, 104, 101, 32, 78, 101, 119, 115, 32, 73, 110, 116, 101, 114, 110, 97, 116,
      105, 111, 110, 97, 108>>
Geo_News == <<71, 101, 111, 32, 78, 101, 119, 115>>                  \* "Geo News"
EmptyStr == <<>>                                                     \* ""

Karachi == <<75, 97, 114, 97, 99, 104, 105>>                         \* "Karachi"
Lahore == <<76, 97, 104, 111, 114, 101>>                             \* "Lahore"

(***************************************************************************)
(* Geocoding (api.py:49-65)                                                *)
(***************************************************************************)
\* Place names the NER model can produce
Places == {Karachi, Lahore}

\* Coordinates the provider can answer with, in hundredths of a degree
Coords == {[lat |-> 2486, lon |-> 6701], [lat |-> 3155, lon |-> 7436]}

\* What geolocator.geocode(place) can do: return a Location, return None, raise
ProviderOutcomes ==
    {[kind |-> "match", lat |-> c.lat, lon |-> c.lon] : c \in Coords}
        \cup {[kind |-> "none"], [kind |-> "error"]}

\* Cap on the provider calls per place name in one behaviour
MaxLookups == 3

\* The dict entry written at api.py:57-61
CacheEntry(place, location) == [lat |-> location.lat, lon |-> location.lon, name |-> place]

\* Mutant: a failed lookup is memoised as None and the exception escapes
geocode_location_poison(cache, place, outcome) ==
    IF place \in DOMAIN cache
    THEN [ret |-> cache[place], cache |-> cache, trace |-> <<>>, raised |-> FALSE]
    ELSE IF outcome.kind = "error"
    THEN [ret |-> None, cache |-> cache, trace |-> <<"geocode">>, raised |-> TRUE]
    ELSE LET entry == IF outcome.kind = "match" THEN CacheEntry(place, outcome) ELSE None
             stored == [p \in DOMAIN cache \cup {place} |->
                           IF p = place THEN entry ELSE cache[p]]
         IN  [ret |-> entry, cache |-> stored, trace |-> <<"geocode", "sleep">>,
              raised |-> FALSE]

\* Mutant: the cache is never consulted
geocode_location_nocache(cache, place, outcome) ==
    IF outcome.kind = "match"
    THEN LET entry == CacheEntry(place, outcome)
             stored == [p \in DOMAIN cache \cup {place} |->
                           IF p = place THEN entry ELSE cache[p]]
         IN  [ret |-> entry, cache |-> stored, trace |-> <<"geocode", "sleep">>,
              raised |-> FALSE]
    ELSE [ret |-> None, cache |-> cache,
          trace |-> IF outcome.kind = "none" THEN <<"geocode", "sleep">> ELSE <<"geocode">>,
          raised |-> FALSE]

\* geocode_location(place) run on cache `cache` when the provider, if called,
\* does `outcome`.  ret: the value returned; cache: geo_cache afterwards;
\* trace: the external effects in order ("geocode": the provider call,
\* "sleep": time.sleep(1)); raised: whether an exception leaves the function.
geocode_location(cache, place, outcome) ==
    IF place \in DOMAIN cache
    THEN \* api.py:51-52
         [ret |-> cache[place], cache |-> cache, trace |-> <<>>, raised |-> FALSE]
    ELSE IF outcome.kind = "error"
    THEN \* api.py:54 raises: control goes to the except clause (63-64), then 65
         [ret |-> None, cache |-> cache, trace |-> <<"geocode">>, raised |-> FALSE]
    ELSE IF outcome.kind = "match"
    THEN \* api.py:54-62
         LET entry == CacheEntry(place, outcome)
             stored == [p \in DOMAIN cache \cup {place} |->
                           IF p = place THEN entry ELSE cache[p]]
         IN  [ret |-> entry, cache |-> stored, trace |-> <<"geocode", "sleep">>,
              raised |-> FALSE]
    ELSE \* api.py:54-56 with location None, then 65
         [ret |-> None, cache |-> cache, trace |-> <<"geocode", "sleep">>,
          raised |-> FALSE]

\* The number of provider calls in a trace
ProviderCalls(trace) == Cardinality({i \in 1..Len(trace) : trace[i] = "geocode"})

EmptyCache == [p \in {} |-> None]

\* A direct call geocode_location(place)
Geocoded(place, outcome, r) ==
    /\ lookups[place] + ProviderCalls(r.trace) <= MaxLookups
    /\ geo_cache' = r.cache
    /\ lookups' = [lookups EXCEPT ![place] = @ + ProviderCalls(r.trace)]
    /\ returned' = [returned EXCEPT ![place] = @ \cup {r.ret}]
    /\ last_geo' = [place |-> place, outcome |-> outcome, before |-> geo_cache,
                    ret |-> r.ret, trace |-> r.trace, raised |-> r.raised]
    /\ UNCHANGED <<clock, world, prev, last, probe, feed_in, feed_out>>

GeocodeCall(place, outcome) ==
    Geocoded(place, outcome, geocode_location(geo_cache, place, outcome))

InitGeo ==
    /\ geo_cache = EmptyCache
    /\ lookups = [p \in Places |-> 0]
    /\ returned = [p \in Places |-> {}]
    /\ last_geo = None
    /\ clock = 1
    /\ world = None
    /\ prev = None
    /\ last = None
    /\ probe = None
    /\ feed_in = None
    /\ feed_out = None

NextGeo == \E place \in Places, outcome \in ProviderOutcomes : GeocodeCall(place, outcome)

SpecGeo == InitGeo /\ [][NextGeo]_vars


(***************************************************************************)
(* Dates and times                                                         *)
(***************************************************************************)
DT(y, mo, d, h, mi, s, us) ==
    [year |-> y, month |-> mo, day |-> d, hour |-> h, minute |-> mi, second |-> s,
     microsecond |-> us]

\* time.struct_time, of which the code reads the first six fields
ST(y, mo, d, h, mi, s) ==
    [year |-> y, month |-> mo, day |-> d, hour |-> h, minute |-> mi, second |-> s]

DaysInMonth(y, mo) ==
    IF mo \in {4, 6, 9, 11} THEN 30
    ELSE IF mo # 2 THEN 31
    ELSE IF (y % 4 = 0 /\ y % 100 # 0) \/ y % 400 = 0 THEN 29 ELSE 28

\* Whether datetime(*st[:6]) succeeds; otherwise it raises ValueError
DatetimeAccepts(st) ==
    /\ st.year >= 1 /\ st.year <= 9999
    /\ st.month >= 1 /\ st.month <= 12
    /\ st.day >= 1 /\ st.day <= DaysInMonth(st.year, st.month)
    /\ st.hour >= 0 /\ st.hour <= 23
    /\ st.minute >= 0 /\ st.minute <= 59
    /\ st.second >= 0 /\ st.second <= 59

\* datetime(*st[:6])
FromStruct(st) == DT(st.year, st.month, st.day, st.hour, st.minute, st.second, 0)

\* datetime.date()
DateOf(dt) == <<dt.year, dt.month, dt.day>>

\* n in decimal, zero-padded to w digits
RECURSIVE Digits(_, _)
Digits(n, w) == IF w = 0 THEN <<>> ELSE Digits(n \div 10, w - 1) \o <<48 + (n % 10)>>

\* datetime.isoformat(): "YYYY-MM-DDTHH:MM:SS", then ".ffffff" when microsecond # 0
IsoFormat(dt) ==
    Digits(dt.year, 4) \o <<45>> \o Digits(dt.month, 2) \o <<45>> \o Digits(dt.day, 2)
        \o <<84>> \o Digits(dt.hour, 2) \o <<58>> \o Digits(dt.minute, 2) \o <<58>>
        \o Digits(dt.second, 2)
        \o (IF dt.microsecond # 0 THEN <<46>> \o Digits(dt.microsecond, 6) ELSE <<>>)

\* The instants the clock is sampled at, in chronological order
Timeline ==
    << DT(2026, 11, 1, 23, 59, 59, 500000),
       DT(2026, 11, 2, 0, 0, 0, 0),
       DT(2026, 11, 2, 0, 0, 0, 500000) >>

\* The k-th datetime.utcnow() of a run whose clock readings are `now`
Reading(now, k) == now[IF k < Len(now) THEN k ELSE Len(now)]

(***************************************************************************)
(* Ranking (api.py:27-33, 84-101)                                          *)
(***************************************************************************)
\* RSS_FEEDS.keys(), in insertion order (api.py:16-22)
RSS_FEEDS == <<BBC_News, Al_Jazeera_English, Dawn, The_News_International, Geo_News>>

Sources == {RSS_FEEDS[i] : i \in 1..Len(RSS_FEEDS)}

\* dict.get(key, default) on a dict given as a function
Get(dict, key, default) == IF key \in DOMAIN dict THEN dict[key] ELSE default

SOURCE_RANK ==
    (BBC_News :> 95) @@ (Al_Jazeera_English :> 90) @@ (Dawn :> 85)
        @@ (The_News_International :> 80) @@ (Geo_News :> 75)

\* api.py:86-91
POPULARITY ==
    (BBC_News :> 95) @@ (Al_Jazeera_English :> 88) @@ (Dawn :> 70)
        @@ (The_News_International :> 65) @@ (Geo_News :> 60)

\* api.py:93-98
CREDIBILITY ==
    (BBC_News :> 97) @@ (Al_Jazeera_English :> 90) @@ (Dawn :> 80)
        @@ (The_News_International :> 75) @@ (Geo_News :> 70)

\* The default of the three .get calls (api.py:85, 92, 99)
DefaultFactor == 50

\* int(n / d) for d > 0: the quotient truncated toward zero
IntDiv(n, d) == IF n >= 0 THEN n \div d ELSE -((-n) \div d)

Max2(a, b) == IF a >= b THEN a ELSE b
Min2(a, b) == IF a <= b THEN a ELSE b

\* Mutant: the popularity factor is left out of the mean
get_dynamic_rank_nopop(source_name) ==
    LET base_rank == Get(SOURCE_RANK, source_name, DefaultFactor)
        credibility_factor == Get(CREDIBILITY, source_name, DefaultFactor)
    IN  Max2(0, Min2(100, IntDiv(base_rank + credibility_factor, 2)))

get_dynamic_rank(source_name) ==
    LET base_rank == Get(SOURCE_RANK, source_name, DefaultFactor)
        popularity_factor == Get(POPULARITY, source_name, DefaultFactor)
        credibility_factor == Get(CREDIBILITY, source_name, DefaultFactor)
        final_rank == IntDiv(base_rank + popularity_factor + credibility_factor, 3)
    IN  Max2(0, Min2(100, final_rank))

(***************************************************************************)
(* Place extraction and enrichment (api.py:43-46, 68-78)                   *)
(***************************************************************************)
\* nlp(text).ents for the NER model `model`: a table from text to entities,
\* each [text, label_]; a text the table lacks has no entities
Ents(model, text) == Get(model, text, <<>>)

extract_locations(model, text) ==
    LET ents == Ents(model, text)
        gpe == SelectSeq(ents, LAMBDA ent : ent.label_ = "GPE")
    IN  [i \in 1..Len(gpe) |-> gpe[i].text]

\* api.py:75-76 once geocode_location has answered `geo`: the coords so far,
\* the cache, the external effects
GeocodeStep(acc, geo) ==
    [coords |-> IF geo.ret # None /\ ~geo.raised
                THEN Append(acc.coords, geo.ret) ELSE acc.coords,
     cache |-> geo.cache,
     trace |-> acc.trace \o geo.trace,
     raised |-> geo.raised]

\* The loop api.py:73-76 from place i on
RECURSIVE GeocodeAll(_, _, _, _)
GeocodeAll(places, i, provider, acc) ==
    IF i > Len(places) \/ acc.raised THEN acc
    ELSE GeocodeAll(places, i + 1, provider,
             GeocodeStep(acc, geocode_location(acc.cache, places[i], provider[places[i]])))

\* article.get("description") or ""
DescriptionOrEmpty(article) ==
    IF "description" \in DOMAIN article /\ article.description # EmptyStr
    THEN article.description ELSE EmptyStr

\* dict `d` with key k set to v
With(d, k, v) == [x \in DOMAIN d \cup {k} |-> IF x = k THEN v ELSE d[x]]

\* api.py:77-78
Enriched(article, done) ==
    [article |-> With(article, "places", done.coords), cache |-> done.cache,
     trace |-> done.trace, raised |-> done.raised]

\* enrich_article(article) with NER model `model`, provider `provider` (what
\* geocode does for each name) and geo_cache `cache`
enrich_article(article, model, provider, cache) ==
    LET text == article.title \o <<32>> \o DescriptionOrEmpty(article)
        places == extract_locations(model, text)
    IN  Enriched(article,
            GeocodeAll(places, 1, provider,
                [coords |-> <<>>, cache |-> cache, trace |-> <<>>, raised |-> FALSE]))

(***************************************************************************)
(* RSS parsing (api.py:107-145)                                            *)
(***************************************************************************)
\* feed.entries[:20] (api.py:117)
EntryLimit == 20

\* hasattr(entry, name)
HasAttr(entry, name) == name \in DOMAIN entry

\* api.py:118-124: the publish time of an entry; `at` is the value of
\* datetime.utcnow() should line 124 run.  bad: datetime() raises ValueError.
PublishedDate(entry, at) ==
    IF HasAttr(entry, "published_parsed") /\ entry.published_parsed # None
    THEN [bad |-> ~DatetimeAccepts(entry.published_parsed),
          date |-> FromStruct(entry.published_parsed), read |-> 0]
    ELSE IF HasAttr(entry, "updated_parsed") /\ entry.updated_parsed # None
    THEN [bad |-> ~DatetimeAccepts(entry.updated_parsed),
          date |-> FromStruct(entry.updated_parsed), read |-> 0]
    ELSE [bad |-> FALSE, date |-> at, read |-> 1]

\* api.py:127-131
Description(entry) ==
    IF HasAttr(entry, "summary") THEN StripTags(entry.summary)
    ELSE IF HasAttr(entry, "description") THEN StripTags(entry.description)
    ELSE EmptyStr

\* api.py:133-141
MakeArticle(entry, published_date, source_name) ==
    [title |-> IF HasAttr(entry, "title") THEN entry.title ELSE EmptyStr,
     description |-> Description(entry),
     url |-> IF HasAttr(entry, "link") THEN entry.link ELSE EmptyStr,
     publishedAt |-> IsoFormat(published_date) \o <<90>>,
     source |-> source_name]

\* Mutant: a strict slice bound, entries[:19]
Taken_short(entries) == SubSeq(entries, 1, Min2(Len(entries), EntryLimit - 1))

\* feed.entries[:20]
Taken(entries) == SubSeq(entries, 1, Min2(Len(entries), EntryLimit))

\* api.py:126-141 for one entry whose publish time resolved to `p`.
\* acc.reads counts the utcnow() calls made so far; acc.raised: an exception
\* is on its way to line 143.
ParseStep(acc, entry, today, source_name, p) ==
    [articles |-> IF ~p.bad /\ DateOf(p.date) = today
                  THEN Append(acc.articles, MakeArticle(entry, p.date, source_name))
                  ELSE acc.articles,
     reads |-> acc.reads + p.read,
     raised |-> p.bad]

\* The loop api.py:117-141 from entry i on
RECURSIVE ParseEntries(_, _, _, _, _, _)
ParseEntries(entries, i, today, source_name, now, acc) ==
    IF i > Len(entries) \/ acc.raised THEN acc
    ELSE ParseEntries(entries, i + 1, today, source_name, now,
             ParseStep(acc, entries[i], today, source_name,
                       PublishedDate(entries[i], Reading(now, acc.reads + 1))))

\* api.py:142-145: the list the loop built, or [] when it raised
Parsed(done) ==
    [ret |-> IF done.raised THEN <<>> ELSE done.articles,
     reads |-> done.reads, raised |-> FALSE]

\* parse_rss_feed(feed_url, source_name).  response: what requests.get,
\* raise_for_status and feedparser.parse make of the URL ([ok |-> FALSE] when
\* one of them raises, else the parsed entries); now: the clock readings,
\* of which `reads` have been used before the call.  Returns the list, the
\* readings used after the call, and whether an exception leaves the function.
parse_rss_feed(response, source_name, now, reads) ==
    IF ~response.ok
    THEN \* api.py:110-112 raise: 143-145
         [ret |-> <<>>, reads |-> reads, raised |-> FALSE]
    ELSE Parsed(ParseEntries(Taken(response.entries), 1,
                             DateOf(Reading(now, reads + 1)), source_name, now,
                             [articles |-> <<>>, reads |-> reads + 1, raised |-> FALSE]))

(***************************************************************************)
(* Aggregation (api.py:151-194)                                            *)
(***************************************************************************)
\* api.py:155 once parse_rss_feed has answered `got`
FetchStep(acc, got) ==
    [all_articles |-> acc.all_articles \o got.ret, reads |-> got.reads]

\* The loop api.py:153-155 from source i on
RECURSIVE FetchAll(_, _, _, _)
FetchAll(responses, now, i, acc) ==
    IF i > Len(RSS_FEEDS) THEN acc
    ELSE FetchAll(responses, now, i + 1,
             FetchStep(acc, parse_rss_feed(responses[RSS_FEEDS[i]], RSS_FEEDS[i], now,
                                           acc.reads)))

\* api.py:166-180
RegionType(location, article) ==
    IF location # None /\ location.str # EmptyStr
    THEN LET location_lower == Lower(location.str)
             text == Lower(article.title \o <<32>> \o Get(article, "description", EmptyStr))
         IN  IF Contains(location_lower, text) THEN "within_city"
             ELSE IF \E source \in Sources : Contains(location_lower, Lower(source))
             THEN "within_region"
             ELSE "other"
    ELSE "global"

\* api.py:165-190 for one article, ranked `rank` and enriched to `enriched`
ProcessStep(acc, location, rank, enriched) ==
    [results |-> IF enriched.raised THEN acc.results
                 ELSE Append(acc.results,
                             With(With(enriched.article, "rank", rank),
                                  "region_type", RegionType(location, enriched.article))),
     cache |-> enriched.cache,
     trace |-> acc.trace \o enriched.trace,
     raised |-> enriched.raised]

\* The loop api.py:158-190 from article i on
RECURSIVE ProcessAll(_, _, _, _, _, _)
ProcessAll(all_articles, i, location, model, provider, acc) ==
    IF i > Len(all_articles) \/ acc.raised THEN acc
    ELSE ProcessAll(all_articles, i + 1, location, model, provider,
             ProcessStep(acc, location, get_dynamic_rank(all_articles[i].source),
                         enrich_article(all_articles[i], model, provider, acc.cache)))

\* Mutant: both keys descending, as sort(key=(rank, publishedAt), reverse=True)
KeyLess_desc(a, b) ==
    \/ a.rank > b.rank
    \/ a.rank = b.rank /\ StrLess(b.publishedAt, a.publishedAt)

\* The sort key of api.py:193, (-rank, publishedAt), compared as tuples
KeyLess(a, b) ==
    \/ a.rank > b.rank
    \/ a.rank = b.rank /\ StrLess(a.publishedAt, b.publishedAt)

\* x put into the sorted list s behind every element whose key is not greater
Insert(s, x) ==
    LET later == {j \in 1..Len(s) : KeyLess(x, s[j])}
        k == IF later = {} THEN Len(s) + 1
             ELSE CHOOSE j \in later : \A m \in later : j <= m
    IN  SubSeq(s, 1, k - 1) \o <<x>> \o SubSeq(s, k, Len(s))

RECURSIVE SortFrom(_, _, _)
SortFrom(s, i, acc) == IF i > Len(s) THEN acc ELSE SortFrom(s, i + 1, Insert(acc, s[i]))

\* results.sort(key=lambda x: (-x["rank"], x["publishedAt"])): a stable sort
Sorted(results) == SortFrom(results, 1, <<>>)

\* api.py:193-194
Returned(fetched, done) ==
    [ret |-> IF done.raised THEN <<>> ELSE Sorted(done.results),
     cache |-> done.cache, trace |-> done.trace, raised |-> done.raised,
     reads |-> fetched.reads, all_articles |-> fetched.all_articles]

\* api.py:157-194 on the list `fetched.all_articles`
Processed(fetched, location, env, cache) ==
    Returned(fetched,
        ProcessAll(fetched.all_articles, 1, location, env.nlp, env.provider,
            [results |-> <<>>, cache |-> cache, trace |-> <<>>, raised |-> FALSE]))

\* fetch_news(location) in the environment env = [responses, nlp, provider]
\* with geo_cache `cache` and clock readings `now`.  ret: the list returned;
\* all_articles: the list built by the loop at lines 153-155.
fetch_news(location, env, cache, now) ==
    Processed(FetchAll(env.responses, now, 1, [all_articles |-> <<>>, reads |-> 0]),
              location, env, cache)

(***************************************************************************)
(* Endpoints (api.py:200-242)                                              *)
(***************************************************************************)
\* The threshold of /news/critical (api.py:220)
CriticalRank == 80

\* The threshold of /news/most_critical (api.py:236)
MostCriticalRank == 90

\* The response body of the three endpoints
Body(news, location) ==
    [news |-> news, total |-> Len(news), location |-> location, sources |-> RSS_FEEDS]

get_all_news(news, location) == Body(news, location)

\* Mutant: the threshold of /news/most_critical copied into /news/critical
get_critical_news_copied(news, location) ==
    Body(SelectSeq(news, LAMBDA n : n.rank >= MostCriticalRank), location)

get_critical_news(news, location) ==
    Body(SelectSeq(news, LAMBDA n : n.rank >= CriticalRank), location)

get_most_critical_news(news, location) ==
    Body(SelectSeq(news, LAMBDA n : n.rank >= MostCriticalRank), location)

(***************************************************************************)
(* The environment of the news pipeline                                    *)
(***************************************************************************)
Flooding_hits_Karachi ==                                 \* "Flooding hits Karachi"
    <<70, 108, 111, 111, 100, 105, 110, 103, 32, 104, 105, 116, 115, 32, 75, 97, 114,
      97, 99, 104, 105>>
Lahore_talks == <<76, 97, 104, 111, 114, 101, 32, 116, 97, 108, 107, 115>>  \* "Lahore talks"
Karachi_markup ==                                        \* "<b>Karachi</b> to Karachi"
    <<60, 98, 62, 75, 97, 114, 97, 99, 104, 105, 60, 47, 98, 62, 32, 116, 111, 32, 75,
      97, 114, 97, 99, 104, 105>>
Karachi_to_Karachi ==                                    \* "Karachi to Karachi"
    <<75, 97, 114, 97, 99, 104, 105, 32, 116, 111, 32, 75, 97, 114, 97, 99, 104, 105>>
Talks == <<116, 97, 108, 107, 115>>                      \* "talks"
Link1 == <<47, 49>>                                      \* "/1"
Link2 == <<47, 50>>                                      \* "/2"
KARACHI == <<75, 65, 82, 65, 67, 72, 73>>                \* "KARACHI"
Bbc == <<98, 98, 99>>                                    \* "bbc"

\* Published today at 00:00:01, no summary
EntryFlood ==
    [title |-> Flooding_hits_Karachi, link |-> Link1,
     published_parsed |-> ST(2026, 11, 2, 0, 0, 1)]

\* No published time, updated today at 00:00:00, a summary with markup
EntryTalks ==
    [title |-> Lahore_talks, summary |-> Karachi_markup, link |-> Link2,
     published_parsed |-> None, updated_parsed |-> ST(2026, 11, 2, 0, 0, 0)]

\* No title, link or time; a description instead of a summary
EntryBare == [description |-> Karachi_markup]

\* Published yesterday, updated today
EntryOld ==
    [title |-> Lahore_talks, link |-> Link2,
     published_parsed |-> ST(2026, 11, 1, 23, 59, 59),
     updated_parsed |-> ST(2026, 11, 2, 0, 0, 0)]

\* A leap second, which datetime() rejects
EntryLeap ==
    [title |-> Flooding_hits_Karachi, link |-> Link1,
     published_parsed |-> ST(2026, 11, 2, 0, 0, 60)]

Failed == [ok |-> FALSE]
Feed(entries) == [ok |-> TRUE, entries |-> entries]

\* What each feed URL can answer with
FeedChoices ==
    (BBC_News :> {Failed, Feed(<<EntryFlood, EntryTalks>>)})
        @@ (Al_Jazeera_English :> {Failed, Feed(<<EntryBare, EntryFlood>>)})
        @@ (Dawn :> {Failed, Feed(<<EntryFlood>>)})
        @@ (The_News_International :> {Feed(<<EntryTalks, EntryLeap>>),
                                       Feed(<<EntryOld, EntryTalks>>)})
        @@ (Geo_News :> {Failed, Feed(<<EntryTalks, EntryBare>>)})

\* The NER model: the entities it finds in each text it finds any in
NlpModel ==
    ((Flooding_hits_Karachi \o <<32>>) :> <<[text |-> Karachi, label_ |-> "GPE"]>>)
        @@ ((Lahore_talks \o <<32>> \o Karachi_to_Karachi) :>
               <<[text |-> Lahore, label_ |-> "GPE"], [text |-> Talks, label_ |-> "EVENT"],
                 [text |-> Karachi, label_ |-> "GPE"], [text |-> Karachi, label_ |-> "GPE"]>>)

\* What the provider does for each place name while the process runs
Providers ==
    {(Karachi :> k) @@ (Lahore :> [kind |-> "match", lat |-> 3155, lon |-> 7436]) :
        k \in {[kind |-> "match", lat |-> 2486, lon |-> 6701], [kind |-> "none"],
               [kind |-> "error"]}}

\* The location query parameter: absent, empty, or a word
Locations == {None, Some(EmptyStr), Some(KARACHI), Some(Bbc)}

\* Every combination of answers of the five feed URLs
Responses ==
    {r \in [Sources -> UNION {FeedChoices[s] : s \in Sources}] :
        \A s \in Sources : r[s] \in FeedChoices[s]}

\* The provider that resolves every place name
Resolving == CHOOSE p \in Providers : p[Karachi].kind = "match"

\* The environments explored: every combination of feed and provider
\* behaviour without a location filter, and every location filter with all
\* feed URLs answering and every place name resolving
Worlds ==
    [responses : Responses, nlp : {NlpModel}, provider : Providers, location : {None}]
        \cup [responses : {r \in Responses : \A s \in Sources : r[s].ok},
              nlp : {NlpModel}, provider : {Resolving}, location : Locations]

\* The clock readings of one request started at instant c: either the clock
\* stands still while the request runs, or each utcnow() call finds it at
\* the next instant
ClockRuns(c) == {<<Timeline[c]>>, SubSeq(Timeline, c, Len(Timeline))}

\* The instant the clock is at after `reads` readings of the run `now`
\* started at instant c
ClockAfter(c, now, reads) == IF reads = 0 THEN c ELSE c + Min2(reads, Len(now)) - 1

(***************************************************************************)
(* The endpoints as actions                                                *)
(***************************************************************************)
\* The handler of `endpoint` once fetch_news has answered `got`
Handle(endpoint, now, got) ==
    /\ geo_cache' = got.cache
    /\ prev' = IF last = None THEN None
               ELSE [endpoint |-> last.endpoint, now |-> last.now, body |-> last.body]
    /\ last' = [endpoint |-> endpoint, now |-> now, raised |-> got.raised,
                body |-> CASE endpoint = "all" -> get_all_news(got.ret, world.location)
                           [] endpoint = "critical" ->
                                get_critical_news(got.ret, world.location)
                           [] endpoint = "most_critical" ->
                                get_most_critical_news(got.ret, world.location),
                news |-> got.ret, all_articles |-> got.all_articles,
                before |-> geo_cache, trace |-> got.trace]
    /\ clock' = ClockAfter(clock, now, got.reads)
    /\ UNCHANGED <<lookups, returned, last_geo, world, probe, feed_in, feed_out>>

Respond(endpoint, now) ==
    Handle(endpoint, now, fetch_news(world.location, world, geo_cache, now))

\* GET /news/all
GetAllNews == \E now \in ClockRuns(clock) : Respond("all", now)

\* GET /news/critical
GetCriticalNews == \E now \in ClockRuns(clock) : Respond("critical", now)

\* GET /news/most_critical
GetMostCriticalNews == \E now \in ClockRuns(clock) : Respond("most_critical", now)

\* Time passes
Tick ==
    /\ clock < Len(Timeline)
    /\ clock' = clock + 1
    /\ UNCHANGED <<geo_cache, lookups, returned, last_geo, world, prev, last, probe,
                   feed_in, feed_out>>

InitNews ==
    /\ geo_cache = EmptyCache
    /\ lookups = [p \in Places |-> 0]
    /\ returned = [p \in Places |-> {}]
    /\ last_geo = None
    /\ clock = 1
    /\ world \in Worlds
    /\ prev = None
    /\ last = None
    /\ probe = None
    /\ feed_in = None
    /\ feed_out = None

NextNews == GetAllNews \/ GetCriticalNews \/ GetMostCriticalNews \/ Tick

Spec == InitNews /\ [][NextNews]_vars

(***************************************************************************)
(* Direct calls of parse_rss_feed and get_dynamic_rank                     *)
(***************************************************************************)
\* Feeds longer than the slice of api.py:117 are built from a run of equal
\* entries followed by a short tail of arbitrary entries
MaxTail == 2

EntryKinds == {EntryFlood, EntryTalks, EntryBare, EntryOld, EntryLeap}

RECURSIVE Repeat(_, _)
Repeat(entry, n) == IF n = 0 THEN <<>> ELSE <<entry>> \o Repeat(entry, n - 1)

Tails == UNION {[1..n -> EntryKinds] : n \in 0..MaxTail}

FeedInputs ==
    {Failed} \cup
    {Feed(Repeat(EntryFlood, k) \o tail) :
        k \in {0, EntryLimit - 1, EntryLimit}, tail \in Tails}

Parse(now, got) ==
    /\ feed_out' = [now |-> now, ret |-> got.ret, raised |-> got.raised]
    /\ clock' = ClockAfter(clock, now, got.reads)
    /\ UNCHANGED <<geo_cache, lookups, returned, last_geo, world, prev, last, probe,
                   feed_in>>

\* A direct call parse_rss_feed(url, "Dawn")
ParseCall == \E now \in ClockRuns(clock) : Parse(now, parse_rss_feed(feed_in, Dawn, now, 0))

InitFeed ==
    /\ geo_cache = EmptyCache
    /\ lookups = [p \in Places |-> 0]
    /\ returned = [p \in Places |-> {}]
    /\ last_geo = None
    /\ clock = 1
    /\ world = None
    /\ prev = None
    /\ last = None
    /\ probe = None
    /\ feed_in \in FeedInputs
    /\ feed_out = None

NextFeed == ParseCall \/ Tick

SpecFeed == InitFeed /\ [][NextFeed]_vars

\* Identifiers outside the tables are arbitrary strings: here, the words over
\* "D", "a", "w" of at most MaxIdLen letters
MaxIdLen == 3

SourceIds == Sources \cup UNION {[1..n -> {68, 97, 119}] : n \in 0..MaxIdLen}

\* A direct call get_dynamic_rank(source_name)
RankQuery(source_name) ==
    /\ probe' = [source_name |-> source_name, rank |-> get_dynamic_rank(source_name)]
    /\ UNCHANGED <<geo_cache, lookups, returned, last_geo, clock, world, prev, last,
                   feed_in, feed_out>>

\* The ranking is exercised with every feed URL answering
InitRank ==
    /\ InitNews
    /\ \A s \in Sources : world.responses[s].ok
    /\ world.provider = Resolving

RankRequest ==
    /\ last = None
    /\ \E now \in ClockRuns(clock) : Respond("all", now)

NextRank == RankRequest \/ Tick \/ \E s \in SourceIds : RankQuery(s)

SpecRank == InitRank /\ [][NextRank]_vars

(***************************************************************************)
(* C1 (as stated): the provider is called at most once per distinct place  *)
(* name, and any two geocode_location calls with the same name return the  *)
(* same value.                                                             *)
(***************************************************************************)
C1_AtMostOneLookupPerName ==
    \A p \in Places : lookups[p] <= 1 /\ Cardinality(returned[p]) <= 1

(***************************************************************************)
(* C1 (amended): once a place name is in geo_cache the provider is never   *)
(* called for it again (only lookups that found nothing or raised are      *)
(* repeated), and all calls with one name that return coordinates return   *)
(* the same coordinates.                                                   *)
(***************************************************************************)
C1_NoLookupOnceResolved ==
    [][\A p \in Places :
          /\ p \in DOMAIN geo_cache => lookups'[p] = lookups[p]
          /\ Cardinality(returned'[p] \ {None}) <= 1]_vars

\* A name that failed once, was looked up again, resolved, and was then
\* served from the cache.
C1_Witness ==
    /\ last_geo # None
    /\ last_geo.place \in DOMAIN last_geo.before
    /\ last_geo.outcome.kind = "match"
    /\ last_geo.ret # None
    /\ [lat |-> last_geo.ret.lat, lon |-> last_geo.ret.lon]
          # [lat |-> last_geo.outcome.lat, lon |-> last_geo.outcome.lon]
    /\ lookups[last_geo.place] >= 2
    /\ None \in returned[last_geo.place]

(***************************************************************************)
(* C2: a geocode_location call that misses the cache raises nothing; if    *)
(* the provider raised or found nothing it returns None and leaves         *)
(* geo_cache as it was; if the provider found a match, geo_cache gains     *)
(* exactly the entry for the input name, holding the provider's lat/lon,   *)
(* and every other entry is as before.                                     *)
(***************************************************************************)
C2_MissOutcome ==
    (last_geo # None /\ last_geo.place \notin DOMAIN last_geo.before) =>
        /\ ~last_geo.raised
        /\ last_geo.outcome.kind \in {"error", "none"} =>
              /\ last_geo.ret = None
              /\ geo_cache = last_geo.before
        /\ last_geo.outcome.kind = "match" =>
              /\ DOMAIN geo_cache = DOMAIN last_geo.before \cup {last_geo.place}
              /\ geo_cache[last_geo.place].lat = last_geo.outcome.lat
              /\ geo_cache[last_geo.place].lon = last_geo.outcome.lon
              /\ last_geo.ret = geo_cache[last_geo.place]
              /\ \A q \in DOMAIN last_geo.before : geo_cache[q] = last_geo.before[q]

\* A failed lookup left the name out of the cache, with another name cached,
\* after the same name had already been looked up before.
C2_Witness ==
    /\ last_geo # None
    /\ last_geo.place \notin DOMAIN last_geo.before
    /\ last_geo.outcome.kind = "error"
    /\ DOMAIN last_geo.before # {}
    /\ lookups[last_geo.place] >= 2
    /\ last_geo.place \notin DOMAIN geo_cache

(***************************************************************************)
(* C9 (as stated): a cache hit makes no provider call and no delay; a      *)
(* cache miss makes exactly one provider call followed by the one-second   *)
(* sleep, whatever the provider did.                                       *)
(***************************************************************************)
C9_DelayAfterEveryLookup ==
    last_geo # None =>
        IF last_geo.place \in DOMAIN last_geo.before
        THEN last_geo.trace = <<>>
        ELSE last_geo.trace = <<"geocode", "sleep">>

(***************************************************************************)
(* Notions the claims about the pipeline are stated in                     *)
(***************************************************************************)
\* The elements of a list
Range(s) == {s[i] : i \in 1..Len(s)}

\* How often x occurs in a list
Count(s, x) == Cardinality({i \in 1..Len(s) : s[i] = x})

\* The fields an article has when parse_rss_feed returns it
BaseFields == {"title", "description", "url", "publishedAt", "source"}

Base(article) == [k \in BaseFields |-> article[k]]

\* The ranks that follow from the three tables of api.py:27-33 and 86-98
ExpectedRank ==
    (BBC_News :> 95) @@ (Al_Jazeera_English :> 89) @@ (Dawn :> 78)
        @@ (The_News_International :> 73) @@ (Geo_News :> 68)

\* The place names the NER model reports for an article, in order
GpeNames(article) ==
    LET ents == Get(world.nlp, article.title \o <<32>> \o article.description, <<>>)
        gpe == SelectSeq(ents, LAMBDA e : e.label_ = "GPE")
    IN  [i \in 1..Len(gpe) |-> gpe[i].text]

\* An entry whose published time is not a time of day, a parse error
Unparsable(e) ==
    /\ "published_parsed" \in DOMAIN e
    /\ e.published_parsed # None
    /\ e.published_parsed.second > 59

\* A source whose feed cannot be fetched or parsed
SourceFails(s) ==
    \/ ~world.responses[s].ok
    \/ \E e \in Range(world.responses[s].entries) : Unparsable(e)

(***************************************************************************)
(* C3: get_dynamic_rank(s) is floor((base + popularity + credibility) / 3) *)
(* of the three factors of s, an integer in 0..100; an identifier outside  *)
(* the tables ranks like one whose factors are all 50, that is 50; "Dawn"  *)
(* ranks 78; and the rank of an article returned by fetch_news is the      *)
(* rank of its source, whatever its text, places or the location filter.   *)
(***************************************************************************)
C3_RankOfSource ==
    /\ probe # None =>
          LET s == probe.source_name
              sum == Get(SOURCE_RANK, s, 50) + Get(POPULARITY, s, 50)
                        + Get(CREDIBILITY, s, 50)
          IN  /\ probe.rank \in 0..100
              /\ 3 * probe.rank <= sum /\ sum < 3 * probe.rank + 3
              /\ s \notin Sources => probe.rank = 50
              /\ s \in Sources => probe.rank = ExpectedRank[s]
              /\ s = Dawn => probe.rank = 78
    /\ last # None =>
          \A a \in Range(last.news) : a.rank = ExpectedRank[a.source]

\* An unknown identifier has been ranked, and a request has returned articles
\* of two sources, one of them twice with different texts and places, under
\* a location filter
C3_Witness ==
    /\ probe # None /\ probe.source_name \notin Sources /\ probe.source_name # EmptyStr
    /\ last # None /\ world.location # None
    /\ \E a, b, c \in Range(last.news) :
          /\ a.source = b.source /\ a.title # b.title /\ a.places # b.places
          /\ c.source = Dawn /\ c.rank = 78

(***************************************************************************)
(* C4 (as stated): two responses computed from the same feeds on the same  *)
(* UTC date with the same geocoder are related by the rank filters: the    *)
(* news of /news/critical are the news of /news/all ranked >= 80 in the    *)
(* same order, those of /news/most_critical the ones ranked >= 90, and     *)
(* total is the length of the list.                                        *)
(***************************************************************************)
Threshold(endpoint) ==
    CASE endpoint = "all" -> 0
      [] endpoint = "critical" -> 80
      [] endpoint = "most_critical" -> 90

\* The news of the response with the higher threshold are those of the
\* other one that reach it, in the same order
Filtered(x, y) ==
    IF Threshold(x.endpoint) <= Threshold(y.endpoint)
    THEN y.body.news = SelectSeq(x.body.news, LAMBDA n : n.rank >= Threshold(y.endpoint))
    ELSE x.body.news = SelectSeq(y.body.news, LAMBDA n : n.rank >= Threshold(x.endpoint))

Dates(now) == {DateOf(now[i]) : i \in 1..Len(now)}

C4_FiltersOfSameDay ==
    (prev # None /\ last # None
        /\ Cardinality(Dates(prev.now) \cup Dates(last.now)) = 1) =>
        /\ Filtered(prev, last)
        /\ last.body.total = Len(last.body.news)

(***************************************************************************)
(* C4 (amended): two responses computed from the same feeds at the same    *)
(* clock readings (the time, not only the date) with the same geocoder are *)
(* related by the rank filters, and total is the length of the list.       *)
(***************************************************************************)
C4_FiltersOfSameInstant ==
    (prev # None /\ last # None /\ prev.now = last.now) =>
        /\ Filtered(prev, last)
        /\ last.body.total = Len(last.body.news)

\* /news/all, then /news/critical at the same instant, which keeps some
\* articles and drops others; the kept ones include one ranked below 90
C4_Witness ==
    /\ prev # None /\ last # None /\ prev.now = last.now
    /\ prev.endpoint = "all" /\ last.endpoint = "critical"
    /\ Len(last.body.news) < Len(prev.body.news)
    /\ \E n \in Range(last.body.news) : n.rank < 90
    /\ \E n \in Range(last.body.news) : n.rank >= 90

(***************************************************************************)
(* C5: the list fetch_news returns is a permutation of the articles        *)
(* fetched from all sources, ordered by rank descending and, among equal   *)
(* ranks, by publishedAt ascending as strings.                             *)
(***************************************************************************)
C5_SortedPermutation ==
    last # None =>
        /\ Len(last.news) = Len(last.all_articles)
        /\ \A a \in Range(last.all_articles) :
              Count(last.all_articles, a)
                 = Cardinality({i \in 1..Len(last.news) : Base(last.news[i]) = a})
        /\ \A i \in 1..(Len(last.news) - 1) :
              \/ last.news[i].rank > last.news[i + 1].rank
              \/ /\ last.news[i].rank = last.news[i + 1].rank
                 /\ StrLeq(last.news[i].publishedAt, last.news[i + 1].publishedAt)

\* Articles of three ranks, two of one source fetched newest first, and an
\* article stamped with a fraction of a second
C5_Witness ==
    /\ last # None
    /\ Cardinality({a.rank : a \in Range(last.news)}) >= 3
    /\ \E i, j \in 1..Len(last.all_articles) :
          /\ i < j
          /\ last.all_articles[i].source = last.all_articles[j].source
          /\ StrLess(last.all_articles[j].publishedAt, last.all_articles[i].publishedAt)
    /\ \E a \in Range(last.news) : 46 \in Range(a.publishedAt)

(***************************************************************************)
(* C6: whatever feeds and geocoder lookups fail, fetch_news raises nothing *)
(* and returns a list; a failing source contributes no article, every      *)
(* article fetched from the other sources is in the list, and a failing    *)
(* lookup removes only that place from the places of its article.          *)
(***************************************************************************)
C6_FailuresContained ==
    last # None =>
        /\ ~last.raised
        /\ \A s \in Sources :
              SourceFails(s) => \A a \in Range(last.news) : a.source # s
        /\ \A a \in Range(last.all_articles) :
              \E n \in Range(last.news) : Base(n) = a
        /\ \A s \in Sources :
              (~SourceFails(s) /\ world.responses[s].entries # <<>>
                 /\ Dates(last.now) = {<<2026, 11, 2>>}) =>
                  \E n \in Range(last.news) : n.source = s
        /\ \A n \in Range(last.news) :
              LET resolved == SelectSeq(GpeNames(n), LAMBDA p : p \in DOMAIN geo_cache)
              IN  /\ Len(n.places) = Len(resolved)
                  /\ \A i \in 1..Len(resolved) : n.places[i].name = resolved[i]

\* A feed that cannot be fetched, one that cannot be parsed, a place name the
\* provider raises on, and an article that keeps its other place
C6_Witness ==
    /\ last # None
    /\ ~world.responses[BBC_News].ok
    /\ world.responses[The_News_International].ok /\ SourceFails(The_News_International)
    /\ world.provider[Karachi].kind = "error"
    /\ \E n \in Range(last.news) :
          /\ Karachi \in Range(GpeNames(n))
          /\ Len(n.places) = 1 /\ n.places[1].name = Lahore
    /\ \E n \in Range(last.news) : Karachi \in Range(GpeNames(n)) /\ n.places = <<>>

(***************************************************************************)
(* C7: for a feed that is fetched and parsed, parse_rss_feed returns, in   *)
(* feed order, one article for each of the first 20 entries whose publish  *)
(* time (published, else updated, else the current time) falls on the      *)
(* current UTC date, and nothing else.                                     *)
(***************************************************************************)
\* The publish time of entry i of the feed, by the claim's resolution order:
\* an entry without a time takes the next clock reading after the first
Timeless(e) ==
    /\ ("published_parsed" \notin DOMAIN e \/ e.published_parsed = None)
    /\ ("updated_parsed" \notin DOMAIN e \/ e.updated_parsed = None)

Resolved(entries, i, now) ==
    LET e == entries[i]
    IN  IF "published_parsed" \in DOMAIN e /\ e.published_parsed # None
        THEN e.published_parsed
        ELSE IF "updated_parsed" \in DOMAIN e /\ e.updated_parsed # None
        THEN e.updated_parsed
        ELSE LET k == 1 + Cardinality({j \in 1..i : Timeless(entries[j])})
             IN  now[IF k < Len(now) THEN k ELSE Len(now)]

Kept(entries, now) ==
    {i \in 1..Len(entries) :
        /\ i <= 20
        /\ <<Resolved(entries, i, now).year, Resolved(entries, i, now).month,
             Resolved(entries, i, now).day>> = DateOf(now[1])}

C7_TodayOfFirstTwenty ==
    (feed_out # None /\ feed_in.ok
        /\ \A i \in 1..Len(feed_in.entries) :
              i <= 20 => ~Unparsable(feed_in.entries[i])) =>
        LET kept == Kept(feed_in.entries, feed_out.now)
            Nth(j) == CHOOSE i \in kept : Cardinality({m \in kept : m < i}) = j - 1
        IN  /\ ~feed_out.raised
            /\ Len(feed_out.ret) = Cardinality(kept)
            /\ \A j \in 1..Len(feed_out.ret) :
                  LET e == feed_in.entries[Nth(j)]
                      r == Resolved(feed_in.entries, Nth(j), feed_out.now)
                  IN  /\ feed_out.ret[j].title = Get(e, "title", EmptyStr)
                      /\ feed_out.ret[j].url = Get(e, "link", EmptyStr)
                      /\ feed_out.ret[j].source = Dawn
                      /\ feed_out.ret[j].publishedAt =
                            IsoFormat(r @@ [microsecond |-> 0]) \o <<90>>

\* A feed of 22 entries parsed today: the 21st, dated today, and the 22nd,
\* without a time, are left out, and 20 articles are returned
C7_Witness ==
    /\ feed_out # None /\ feed_in.ok
    /\ Len(feed_in.entries) = 22
    /\ feed_in.entries[21] = EntryTalks /\ feed_in.entries[22] = EntryBare
    /\ Len(feed_out.ret) = 20
    /\ DateOf(feed_out.now[1]) = <<2026, 11, 2>>

(***************************************************************************)
(* C8 (as stated): the places of every article returned hold one entry for *)
(* each extracted place name the geocoder resolves, in order, duplicates   *)
(* kept, each with the name, the resolved lat/lon and a non-negative       *)
(* distance from the reference point; an article of "Dawn" ranks 78.       *)
(***************************************************************************)
C8_PlacesWithDistance ==
    last # None =>
        \A n \in Range(last.news) :
            LET resolved == SelectSeq(GpeNames(n), LAMBDA p : p \in DOMAIN geo_cache)
            IN  /\ Len(n.places) = Len(resolved)
                /\ n.source = Dawn => n.rank = 78
                /\ \A i \in 1..Len(resolved) :
                      /\ n.places[i].name = resolved[i]
                      /\ n.places[i].lat = geo_cache[resolved[i]].lat
                      /\ n.places[i].lon = geo_cache[resolved[i]].lon
                      /\ \E k \in DOMAIN n.places[i] \ {"name", "lat", "lon"} :
                            n.places[i][k] >= 0

(***************************************************************************)
(* C10 (as stated): with a location filter, region_type is within_city     *)
(* when the filter occurs, ignoring case, in the article's title and       *)
(* description, else within_region when it occurs in the article's source  *)
(* name, else other; without a filter it is global.                        *)
(***************************************************************************)
C10_RegionOfOwnSource ==
    last # None =>
        \A n \in Range(last.news) :
            n.region_type =
                IF world.location = None \/ world.location.str = EmptyStr THEN "global"
                ELSE IF Contains(Lower(world.location.str),
                                 Lower(n.title \o <<32>> \o n.description))
                THEN "within_city"
                ELSE IF Contains(Lower(world.location.str), Lower(n.source))
                THEN "within_region"
                ELSE "other"

====
